---- MODULE Spec2Model ----
(***************************************************************************)
(* A model of cros_mark_as_stable.py: the resolution of uprev candidates   *)
(* (_FindUprevCandidates, BestEBuild), the revving of a workon ebuild      *)
(* (EBuildStableMarker), the git branch wrapper (GitBranch), PushChange    *)
(* and the per-overlay loop of main.                                       *)
(*                                                                         *)
(* An ebuild file is a record [name, link, lines]; name is [ver, suffix],  *)
(* the parts of "<pkgname>-<ver>[-r<rev>].ebuild" (suffix is <<>> when the *)
(* file name carries no -r<rev>); lines is the text, a sequence of         *)
(* [k, v] records: k is what the line starts with, v the rest.             *)
(***************************************************************************)
EXTENDS Integers, Sequences, FiniteSets, TLC

\* ------------------------------------------------------------ bounds
MaxFiles == 3       \* ebuild files of a directory handed to _FindUprevCandidates
MaxVersion == 3     \* versions of stable ebuilds are 2..MaxVersion (and 1, 9999)
MaxRev == 2         \* highest -r<rev> of an ebuild that is on disk at the start
MaxCalls == 2       \* calls of RevWorkOnEBuild on one package directory
MaxTip == 1         \* the tip of the tracking branch moves at most this far
MaxCommits == 2     \* local commits on one branch
MaxLines == 4       \* lines of an ebuild handed to MarkAsStable

\* ------------------------------------------------------------ program constants
LIVE_VERSION == 9999          \* '%s-9999.ebuild'
PLACEHOLDER_VERSION == 1      \* '0.0.1', the version of a first stable ebuild

WORKON_COMMIT == "CROS_WORKON_COMMIT"
EXEMPT_PACKAGE == "x11-drivers/xf86-video-msm"
Packages == {EXEMPT_PACKAGE, "chromeos-base/foo"}
CommitIds == {"abc123", "def456"}

\* ------------------------------------------------------------ ebuild text
InheritLines == {[k |-> "inherit ", v |-> "cros-workon"], [k |-> "inherit ", v |-> "eutils"]}
KeywordLines == {[k |-> "KEYWORDS=", v |-> w] : w \in {"~x86", "x86", "~mips", "mips"}}
EapiLine == [k |-> "EAPI", v |-> "=2"]
BlankLine == [k |-> "", v |-> ""]
OtherLine == [k |-> "DESCRIPTION", v |-> "=x"]
CommitLine(id) == [k |-> WORKON_COMMIT, v |-> id]

\* '~' in line
HasTilde(line) == line.v \in {"~x86", "~mips"}

\* 'amd64' in line or 'x86' in line or 'arm' in line
HasArch(line) == line.v \in {"~x86", "x86"}

\* line.replace('~', '')
RemoveTildeBug(line) == line
RemoveTilde(line) ==
  [line EXCEPT !.v = CASE line.v = "~x86" -> "x86"
                       [] line.v = "~mips" -> "mips"
                       [] OTHER -> line.v]

\* line.startswith(prefix), for the prefixes the program tests
StartsWithBug(line, prefix) ==
  \/ prefix = ""
  \/ line.k = prefix /\ prefix = "EAPI"
  \/ prefix = "KEYWORDS" /\ line.k = "KEYWORDS="
StartsWith(line, prefix) ==
  \/ prefix = ""
  \/ line.k = prefix
  \/ prefix = "KEYWORDS" /\ line.k = "KEYWORDS="

\* ------------------------------------------------------------ versions
\* vercmp of portage.versions on two '<version>-r<rev>' pairs: the sign of
\* the comparison, by version first and revision second.
vercmp(a, b) ==
  IF a.ver < b.ver THEN 0 - 1
  ELSE IF a.ver > b.ver THEN 1
  ELSE IF a.rev < b.rev THEN 0 - 1
  ELSE IF a.rev > b.rev THEN 1
  ELSE 0

\* pkgsplit of portage.versions: a name without -r<rev> has revision r0
PkgSplitRev(name) == IF name.suffix = <<>> THEN 0 ELSE name.suffix[1]

\* ------------------------------------------------------------ EBuild
IsWorkonBug(lines) == TRUE
IsWorkon(lines) ==
  \E i \in 1..Len(lines) : StartsWith(lines[i], "inherit ") /\ lines[i].v = "cros-workon"

IsStableBug(lines) ==
  \E i \in 1..Len(lines) : StartsWith(lines[i], "KEYWORDS=") /\ HasArch(lines[i])
IsStable(lines) ==
  \E i \in 1..Len(lines) :
    StartsWith(lines[i], "KEYWORDS=") /\ ~HasTilde(lines[i]) /\ HasArch(lines[i])

\* EBuild.__init__ on the file f of the directory of package pkg
EBuild(pkg, f) ==
  [package |-> pkg,
   ebuild_path |-> f.name,
   version_no_rev |-> f.name.ver,
   current_revision |-> PkgSplitRev(f.name),
   version |-> [ver |-> f.name.ver, rev |-> PkgSplitRev(f.name)],
   is_workon |-> IsWorkon(f.lines),
   is_stable |-> IsStable(f.lines)]

\* BestEBuild: the first ebuild no later one beats, scanning left to right
RECURSIVE BestFrom(_, _, _)
BestFrom(winner, ebuilds, i) ==
  IF i > Len(ebuilds) THEN winner
  ELSE IF vercmp(winner.version, ebuilds[i].version) < 0
       THEN BestFrom(ebuilds[i], ebuilds, i + 1)
       ELSE BestFrom(winner, ebuilds, i + 1)

BestEBuildFirst(ebuilds) == ebuilds[1]
BestEBuild(ebuilds) == BestFrom(ebuilds[1], ebuilds, 2)

\* ------------------------------------------------------------ _FindUprevCandidates
\* The loop of lines 107-115 over files[i..]: the stable and the unstable
\* workon ebuilds, in the order of the listing. Links are skipped and an
\* ebuild that is not a workon ebuild is dropped from both lists.
RECURSIVE Partition(_, _, _, _)
Partition(pkg, files, i, acc) ==
  IF i > Len(files) THEN acc
  ELSE LET f == files[i]
           e == EBuild(pkg, f)
       IN IF f.link \/ ~e.is_workon THEN Partition(pkg, files, i + 1, acc)
          ELSE IF e.is_stable
               THEN Partition(pkg, files, i + 1,
                              [acc EXCEPT !.stable = Append(@, e), !.workon_dir = TRUE])
               ELSE Partition(pkg, files, i + 1,
                              [acc EXCEPT !.unstable = Append(@, e), !.workon_dir = TRUE])

NoEBuild == <<>>

\* The outcome of _FindUprevCandidates(files): ret is <<>> (None) or <<ebuild>>,
\* warnings the texts passed to Warning in order, fatal the text passed to Die
\* ("" when the function returns).
FindUprevCandidates(pkg, files) ==
  LET p == Partition(pkg, files, 1, [stable |-> <<>>, unstable |-> <<>>, workon_dir |-> FALSE])
      best == IF Len(p.stable) > 1 THEN <<BestEBuild(p.stable)>> ELSE p.stable
      w1 == IF Len(p.stable) > 1 /\ best[1].package # EXEMPT_PACKAGE
            THEN <<"Found multiple stable ebuilds">> ELSE <<>>
  IN IF p.workon_dir
     THEN IF Len(p.unstable) > 1
          THEN [ret |-> NoEBuild, warnings |-> <<>>, fatal |-> "Found multiple unstable ebuilds"]
          ELSE IF p.unstable = <<>>
          THEN [ret |-> NoEBuild, warnings |-> w1, fatal |-> "Missing 9999 ebuild"]
          ELSE IF best = <<>>
          THEN [ret |-> <<p.unstable[1]>>, warnings |-> w1 \o <<"Missing stable ebuild">>, fatal |-> ""]
          ELSE [ret |-> <<best[1]>>, warnings |-> w1, fatal |-> ""]
     ELSE IF p.stable # <<>> THEN [ret |-> <<p.stable[1]>>, warnings |-> <<>>, fatal |-> ""]
          ELSE [ret |-> NoEBuild, warnings |-> <<>>, fatal |-> ""]

\* ------------------------------------------------------------ EBuildStableMarker
\* The rewriting loop of MarkAsStable over lines[i..], first match wins.
RECURSIVE RewriteFrom(_, _, _, _)
RewriteFrom(lines, i, commit_keyword, commit_value) ==
  IF i > Len(lines) THEN <<>>
  ELSE LET line == lines[i]
           rest == RewriteFrom(lines, i + 1, commit_keyword, commit_value)
       IN IF StartsWith(line, "KEYWORDS") THEN <<RemoveTilde(line)>> \o rest
          ELSE IF StartsWith(line, "EAPI")
               THEN IF commit_keyword # "" /\ commit_value # ""
                    THEN <<line, [k |-> commit_keyword, v |-> commit_value]>> \o rest
                    ELSE <<line>> \o rest
          ELSE IF ~StartsWith(line, commit_keyword) THEN <<line>> \o rest
          ELSE rest

\* The text MarkAsStable leaves in new_stable_ebuild_path, given the text of
\* the unstable ebuild it copies.
MarkAsStable(unstable_lines, commit_keyword, commit_value) ==
  RewriteFrom(unstable_lines, 1, commit_keyword, commit_value)

\* diff -B: exit status 0 when the two texts agree up to blank lines
NotBlank(line) == line # BlankLine
DiffSame(a, b) == SelectSeq(a, NotBlank) = SelectSeq(b, NotBlank)

\* ---- a package directory: a set of files with distinct names
UnstableName == [ver |-> LIVE_VERSION, suffix |-> <<>>]
Exists(dir, name) == \E f \in dir : f.name = name
FileAt(dir, name) == CHOOSE f \in dir : f.name = name
Unlink(dir, name) == {f \in dir : f.name # name}
WriteFile(dir, name, lines) ==
  Unlink(dir, name) \cup {[name |-> name, link |-> FALSE, lines |-> lines]}

\* The path of the new stable ebuild (lines 452-460)
NewStablePathBug(e) == [ver |-> e.version_no_rev, suffix |-> <<e.current_revision>>]
NewStablePathSkip(e) ==
  IF e.is_stable
  THEN [ver |-> e.version_no_rev, suffix |-> <<e.current_revision + 2>>]
  ELSE [ver |-> PLACEHOLDER_VERSION, suffix |-> <<e.current_revision + 2>>]
NewStablePath(e) ==
  IF e.is_stable
  THEN [ver |-> e.version_no_rev, suffix |-> <<e.current_revision + 1>>]
  ELSE [ver |-> PLACEHOLDER_VERSION, suffix |-> <<e.current_revision + 1>>]

\* The file the new ebuild is compared with (line 471)
DiffBaseBug(e) == UnstableName
DiffBase(e) == e.ebuild_path

RevFailures == {"none", "copy", "unlink", "add", "rm"}

RevResult(d, staged, ret, new, raised) ==
  [dir |-> d, staged |-> staged, ret |-> ret, new |-> new, raised |-> raised]

\* RevWorkOnEBuild(commit_id) of the marker of ebuild e, run in directory dir;
\* fail names the step that raises if it is reached ("none": no step).
\* ret is "True", "False", "raise" (an exception leaves the method) or "die";
\* staged is what the call adds to the git index, raised the step that raised.
RevWorkOnEBuild(dir, e, commit_id, fail) ==
  LET new == NewStablePath(e)
      old == DiffBase(e)
      text == MarkAsStable(FileAt(dir, UnstableName).lines, WORKON_COMMIT, commit_id)
      written == WriteFile(dir, new, text)
      same == Exists(written, old) /\ DiffSame(FileAt(written, old).lines, text)
      add == [op |-> "add", package |-> e.package, name |-> new]
      rm == [op |-> "rm", package |-> e.package, name |-> e.ebuild_path]
  IN IF ~Exists(dir, UnstableName) THEN RevResult(dir, {}, "die", new, "")
     ELSE IF fail = "copy" THEN RevResult(dir, {}, "raise", new, "copy")
     ELSE IF same /\ fail = "unlink" THEN RevResult(written, {}, "raise", new, "unlink")
     ELSE IF same THEN RevResult(Unlink(written, new), {}, "False", new, "")
     ELSE IF fail = "add" THEN RevResult(written, {}, "raise", new, "add")
     ELSE IF ~e.is_stable THEN RevResult(written, {add}, "True", new, "")
     ELSE IF fail = "rm" THEN RevResult(written, {add}, "raise", new, "rm")
     ELSE RevResult(Unlink(written, e.ebuild_path), {add, rm}, "True", new, "")

\* ------------------------------------------------------------ git clones
STABLE_BRANCH_NAME == "stabilizing_branch"
MERGE_BRANCH_NAME == "merge_branch"
TRACKING_BRANCH == "cros/master"
OTHER_BRANCH == "master"
Overlays == {"private-overlays/chromeos-overlay", "third_party/chromiumos-overlay"}

\* A clone: cur is the branch checked out (TRACKING_BRANCH: the detached head
\* at it), br[b] is <<>> when b is absent and <<[base, commits]>> when it is
\* present (base: the tip of the tracking branch it was created from, commits:
\* the commits made on it since), tip is the tip of the tracking branch,
\* index is what is staged.
Branch(base, commits) == <<[base |-> base, commits |-> commits]>>
Absent == <<>>
Cmd(c, a) == [cmd |-> c, arg |-> a]

\* 'git branch | grep \*', second word (line 169)
CurrentBranch(r) == r.cur

CheckOnStabilizingBranchAlways(r, stable_branch) == TRUE
CheckOnStabilizingBranchNever(r, stable_branch) == FALSE
CheckOnStabilizingBranchExists(r, stable_branch) ==
  stable_branch \in DOMAIN r.br /\ r.br[stable_branch] # <<>>
CheckOnStabilizingBranch(r, stable_branch) == CurrentBranch(r) = stable_branch

\* GitBranch.Exists: the name is among the words of 'git branch'
BranchExists(r, name) == name = OTHER_BRANCH \/ (name \in DOMAIN r.br /\ r.br[name] # Absent)

GitResult(r, raised, trace) == [repo |-> r, raised |-> raised, trace |-> trace]

GitFailures == {"none", "checkout", "delete", "create"}

\* GitBranch(name, tracking).Delete(): git checkout tracking, then
\* git branch -D name. git refuses to delete a branch that is absent or
\* checked out; fail names a command that fails for another reason.
GitBranchDeleteNoCheckout(r, name, tracking, fail) ==
  IF fail = "delete" \/ ~BranchExists(r, name) \/ r.cur = name
  THEN GitResult(r, TRUE, <<Cmd("branch -D", name)>>)
  ELSE GitResult([r EXCEPT !.br[name] = Absent], FALSE, <<Cmd("branch -D", name)>>)
GitBranchDeleteReturns(r, name, tracking, fail) ==
  LET co == <<Cmd("checkout", tracking)>>
      r1 == [r EXCEPT !.cur = tracking]
  IN IF fail = "checkout" THEN GitResult(r, TRUE, co)
     ELSE IF fail = "delete" \/ ~BranchExists(r1, name)
     THEN GitResult(r1, TRUE, co \o <<Cmd("branch -D", name)>>)
     ELSE GitResult([r EXCEPT !.br[name] = Absent, !.cur = IF r.cur = name THEN tracking ELSE @],
                    FALSE, co \o <<Cmd("branch -D", name)>>)
GitBranchDelete(r, name, tracking, fail) ==
  LET co == <<Cmd("checkout", tracking)>>
      r1 == [r EXCEPT !.cur = tracking]
  IN IF fail = "checkout" THEN GitResult(r, TRUE, co)
     ELSE IF fail = "delete" \/ ~BranchExists(r1, name)
     THEN GitResult(r1, TRUE, co \o <<Cmd("branch -D", name)>>)
     ELSE GitResult([r1 EXCEPT !.br[name] = Absent], FALSE, co \o <<Cmd("branch -D", name)>>)

\* GitBranch._Checkout(name): git checkout -b name tracking
GitCheckoutNew(r, name, tracking, fail, trace) ==
  LET t == trace \o <<Cmd("checkout -b", name)>>
  IN IF fail = "create" \/ BranchExists(r, name) THEN GitResult(r, TRUE, t)
     ELSE GitResult([r EXCEPT !.cur = name, !.br[name] = Branch(r.tip, <<>>)], FALSE, t)

\* GitBranch(name, tracking).CreateBranch()
GitBranchCreate(r, name, tracking, fail) ==
  IF BranchExists(r, name)
  THEN LET d == GitBranchDelete(r, name, tracking, fail)
       IN IF d.raised THEN d
          ELSE GitCheckoutNew(d.repo, name, tracking, fail, d.trace)
  ELSE GitCheckoutNew(r, name, tracking, fail, <<>>)

\* ------------------------------------------------------------ PushChange
NUM_RETRIES == 5

PushFailures ==
  {"none", "update", "checkout", "delete", "create", "exists", "merge", "commit",
   "config", "push"}

\* The changes of the commits of branch name, as git merge --squash stages them
Changes(r, name) ==
  UNION {r.br[name][1].commits[i] : i \in 1..Len(r.br[name][1].commits)}

TraceKinds(trace) == {trace[i].cmd : i \in 1..Len(trace)}

AttemptResult(r, ok, kinds, pushed, call) ==
  [repo |-> r, ok |-> ok, ran |-> kinds, pushed |-> pushed, gb |-> call]

GitCall(op, name, before, res) ==
  <<[op |-> op, name |-> name, before |-> before, after |-> res.repo,
     raised |-> res.raised, trace |-> res.trace]>>

\* git remote update finds the tracking branch moved
Fetched(r) == [r EXCEPT !.tip = @ + 1]

\* git commit of what is staged, on the local branch checked out
GitCommitAmend(r) ==
  [r EXCEPT !.br[r.cur] = Branch(@[1].base,
                                 IF @[1].commits = <<>> THEN <<r.index>>
                                 ELSE <<@[1].commits[1] \cup r.index>>),
            !.index = {}]
GitCommit(r) ==
  [r EXCEPT !.br[r.cur] = Branch(@[1].base, Append(@[1].commits, r.index)), !.index = {}]

CanCommit(r) ==
  /\ r.cur \in DOMAIN r.br /\ r.br[r.cur] # Absent
  /\ r.index # {}

\* The push of line 261-264
PushKindAlwaysReal(dry) == "push"
PushKind(dry) == IF dry THEN "push --dry-run" ELSE "push"

\* One pass of the body of the try of lines 253-264 on clone r: fail names the
\* command that fails ("exists": the check of line 256), moved tells whether
\* git remote update finds the tracking branch moved. ok is TRUE when the
\* pass reaches the break.
PushAttempt(r, stable_branch, tracking_branch, dry, fail, moved) ==
  LET r1 == IF moved THEN Fetched(r) ELSE r
      cb == GitBranchCreate(r1, MERGE_BRANCH_NAME, tracking_branch,
                            IF fail \in GitFailures THEN fail ELSE "none")
      call == GitCall("CreateBranch", MERGE_BRANCH_NAME, r1, cb)
      k2 == {"remote update", "branch"} \cup TraceKinds(cb.trace)
      r2 == cb.repo
      r3 == [r2 EXCEPT !.index = @ \cup Changes(r2, stable_branch)]
      k3 == k2 \cup {"merge --squash"}
      r4 == GitCommit(r3)
      k4 == k3 \cup {"commit"}
      k5 == k4 \cup {"config"}
      k6 == k5 \cup {PushKind(dry)}
  IN IF fail = "update" THEN AttemptResult(r, FALSE, {"remote update"}, <<>>, <<>>)
     ELSE IF cb.raised THEN AttemptResult(r2, FALSE, k2, <<>>, call)
     ELSE IF fail = "exists" \/ ~BranchExists(r2, MERGE_BRANCH_NAME)
     THEN AttemptResult(r2, FALSE, k2, <<>>, call)
     ELSE IF fail = "merge" \/ ~BranchExists(r2, stable_branch)
     THEN AttemptResult(r2, FALSE, k3, <<>>, call)
     ELSE IF fail = "commit" \/ ~CanCommit(r3) THEN AttemptResult(r3, FALSE, k4, <<>>, call)
     ELSE IF fail = "config" THEN AttemptResult(r4, FALSE, k5, <<>>, call)
     ELSE IF fail = "push" THEN AttemptResult(r4, FALSE, k6, <<>>, call)
     ELSE AttemptResult(r4, TRUE, k6,
                        IF dry THEN <<>> ELSE <<r4.br[MERGE_BRANCH_NAME][1].commits[1]>>, call)

\* Where the loop of lines 251-272 stands after the pass numbered push_try
AfterAttemptNoBreak(ok, push_try) ==
  IF ok \/ push_try < NUM_RETRIES THEN "looping" ELSE "raised"
AfterAttemptSwallow(ok, push_try) ==
  IF ok THEN "returned" ELSE IF push_try < NUM_RETRIES THEN "looping" ELSE "returned"
AfterAttempt(ok, push_try) ==
  IF ok THEN "returned" ELSE IF push_try < NUM_RETRIES THEN "looping" ELSE "raised"

\* What a pass of the loop raises: Die (sys.exit) raises SystemExit at the
\* check of line 256, which is reached when CreateBranch has returned and is
\* the last step before git merge --squash; a git command that fails raises
\* subprocess.CalledProcessError.
DIE_EXCEPTION == "SystemExit"
CMD_EXCEPTION == "CalledProcessError"
AttemptException(a) ==
  IF a.ok THEN ""
  ELSE IF a.gb # <<>> /\ ~a.gb[1].raised /\ "merge --squash" \notin a.ran
  THEN DIE_EXCEPTION
  ELSE CMD_EXCEPTION

\* The except clause of line 267 is bare: it catches every exception,
\* SystemExit included.
PushCatchesException(exc) == exc # DIE_EXCEPTION
PushCatches(exc) == TRUE

\* The warnings of lines 268-270 after the pass numbered push_try
WarnedAfter(w, ok, push_try) ==
  IF ~ok /\ push_try < NUM_RETRIES THEN Append(w, push_try + 1) ELSE w

\* ------------------------------------------------------------ state
VARIABLES
  rdir,     \* _FindUprevCandidates: the files of the package directory
  rpkg,     \* _FindUprevCandidates: the package (category/pkgname) of the directory
  rdone,    \* _FindUprevCandidates: TRUE once it has run
  rout,     \* _FindUprevCandidates: its outcome
  dir,      \* rev rounds: the files of the package directory
  index,    \* rev rounds: the git index, a set of staged additions and removals
  ncalls,   \* rev rounds: rounds done
  prev,     \* rev rounds: the round before the last one
  last,     \* rev rounds: the last round
  repos,    \* the git clone of each overlay: [cur, br, tip, index]
  cwd,      \* the overlay the process has changed directory to
  gb,       \* the last call of a GitBranch method: <<>> or <<[op, name, before, raised, trace]>>
  dryrun,   \* gflags.FLAGS.dryrun
  pstate,   \* PushChange: "idle", "looping", "returned" or "raised"
  entry,    \* PushChange: the clone as it was when PushChange was called
  tries,    \* PushChange: the outcome of each attempt so far, "ok" or "failed"
  warned,   \* PushChange: the attempt numbers of the warnings, in order
  lastexc,  \* PushChange: what the last pass of the loop raised ("": nothing)
  ran,      \* PushChange: the kinds of git command run since it was called
  remote,   \* the batches pushed to the remote, in order
  command,  \* main: argv[1]
  start,    \* main: the clones and the trees as the run found them
  tree,     \* main: the package directories of each overlay, by package
  ebuilds,  \* main: overlays[overlay], the candidates of each overlay in order
  todo,     \* main: the overlays the loop of line 530 has not finished, in its order
  pc,       \* main: "start", "loop", "ebuild", "finish", "done" or "exit"
  idx,      \* main: the place in ebuilds[cwd] of the ebuild to work on next
  revved,   \* main: revved_packages of each overlay
  cleaned,  \* main: the arguments of each call of _CleanStalePackages, by overlay
  visited,  \* main: "no", "skipped", "open", "finished" or "pushed", by overlay
  mainlog,  \* main: the packages named by the 'Cannot rev' warnings, in order
  exitcause, \* main: what ended the run early: "", "die", "promote", "git" or "cleanup"
  raisedat, \* main: the step of the promotion that failed ("": none has)
  mlines,   \* MarkAsStable: the lines of the unstable ebuild it copies
  mvalue,   \* MarkAsStable: commit_value
  mdone,    \* MarkAsStable: TRUE once it has run
  mout      \* MarkAsStable: the lines it has left in the new ebuild

resolveVars == <<rdir, rpkg, rdone, rout>>
revVars == <<dir, index, ncalls, prev, last>>
gitVars == <<repos, cwd, gb>>
pushVars == <<dryrun, pstate, entry, tries, warned, ran, remote, lastexc>>
mainVars ==
  <<command, start, tree, ebuilds, todo, pc, idx, revved, cleaned, visited, mainlog, exitcause,
    raisedat>>
markVars == <<mlines, mvalue, mdone, mout>>
vars == <<resolveVars, revVars, gitVars, pushVars, mainVars, markVars>>

\* ---- the parts of the state a specification leaves alone
RevPackage == "chromeos-base/foo"

HomeOverlay == "third_party/chromiumos-overlay"

Token(i) ==
  [op |-> "add", package |-> RevPackage,
   name |-> [ver |-> PLACEHOLDER_VERSION, suffix |-> <<i>>]]
SampleCommits(n) == [i \in 1..n |-> {Token(i)}]

CleanRepo ==
  [cur |-> TRACKING_BRANCH,
   br |-> [b \in {STABLE_BRANCH_NAME, MERGE_BRANCH_NAME} |-> Absent],
   tip |-> 0, index |-> {}]

\* The clones a run can find on disk
RepoStates ==
  {[cur |-> c,
    br |-> [b \in {STABLE_BRANCH_NAME, MERGE_BRANCH_NAME} |->
              IF b = STABLE_BRANCH_NAME THEN sb ELSE mb],
    tip |-> t, index |-> ix] :
     c \in {TRACKING_BRANCH, OTHER_BRANCH, STABLE_BRANCH_NAME, MERGE_BRANCH_NAME},
     sb \in {Absent} \cup {Branch(0, SampleCommits(n)) : n \in 0..MaxCommits},
     mb \in {Absent, Branch(0, <<>>), Branch(0, SampleCommits(1))},
     t \in 0..MaxTip,
     ix \in {{}, {Token(0)}}}

ValidRepo(r) ==
  /\ r.cur = STABLE_BRANCH_NAME => r.br[STABLE_BRANCH_NAME] # Absent
  /\ r.cur = MERGE_BRANCH_NAME => r.br[MERGE_BRANCH_NAME] # Absent

IdlePush ==
  /\ dryrun = FALSE /\ pstate = "idle" /\ entry = CleanRepo
  /\ tries = <<>> /\ warned = <<>> /\ ran = {} /\ remote = <<>> /\ lastexc = ""

IdleGit ==
  /\ cwd = HomeOverlay
  /\ repos = [o \in Overlays |-> CleanRepo]
  /\ gb = <<>>

IdleRev ==
  /\ dir = {} /\ index = {} /\ ncalls = 0
  /\ prev = <<>> /\ last = <<>>

IdleResolve ==
  /\ rdir = {} /\ rpkg = RevPackage /\ rdone = FALSE
  /\ rout = [ret |-> NoEBuild, warnings |-> <<>>, fatal |-> ""]

IdleMark ==
  /\ mlines = <<>> /\ mvalue = "" /\ mdone = FALSE /\ mout = <<>>

IdleMain ==
  /\ command = "" /\ start = <<>> /\ tree = <<>> /\ ebuilds = <<>> /\ todo = <<>>
  /\ pc = "" /\ idx = 0 /\ revved = <<>> /\ cleaned = <<>> /\ visited = <<>>
  /\ mainlog = <<>> /\ exitcause = "" /\ raisedat = ""

\* All orders in which a listing can hand the files of a directory over
Listings(d) ==
  {s \in [1..Cardinality(d) -> d] : \A i, j \in 1..Cardinality(d) : i # j => s[i] # s[j]}

\* ------------------------------------------------------------ texts and directories
LiveText == <<[k |-> "inherit ", v |-> "cros-workon"], [k |-> "KEYWORDS=", v |-> "~x86"]>>
StableText == <<[k |-> "inherit ", v |-> "cros-workon"], [k |-> "KEYWORDS=", v |-> "x86"]>>
PlainText == <<[k |-> "inherit ", v |-> "eutils"], [k |-> "KEYWORDS=", v |-> "x86"]>>

FileKinds == {"live", "stable", "plain", "link"}
FileOfKind(name, kind) ==
  [name |-> name,
   link |-> (kind = "link"),
   lines |-> CASE kind = "live" -> LiveText
               [] kind = "plain" -> PlainText
               [] OTHER -> StableText]

ResolveNames ==
  {UnstableName} \cup {[ver |-> v, suffix |-> <<r>>] : v \in 2..MaxVersion, r \in {1, 2}}

\* ------------------------------------------------------------ SpecResolve
InitResolve ==
  /\ rpkg \in Packages
  /\ \E names \in SUBSET ResolveNames :
       /\ Cardinality(names) <= MaxFiles
       /\ \E kind \in [names -> FileKinds] :
            rdir = {FileOfKind(n, kind[n]) : n \in names}
  /\ rdone = FALSE
  /\ rout = [ret |-> NoEBuild, warnings |-> <<>>, fatal |-> ""]
  /\ IdleRev /\ IdleGit /\ IdlePush /\ IdleMain /\ IdleMark

\* _FindUprevCandidates(files), for any order of the listing
Resolve ==
  /\ ~rdone
  /\ \E files \in Listings(rdir) : rout' = FindUprevCandidates(rpkg, files)
  /\ rdone' = TRUE
  /\ UNCHANGED <<rdir, rpkg, revVars, gitVars, pushVars, mainVars, markVars>>

NextResolve == Resolve

SpecResolve == InitResolve /\ [][NextResolve]_vars

\* ---- the definitions of a directory, told by their text: a live-tracking
\* definition is a cros-workon ebuild with unstable keywords, a stable one a
\* cros-workon ebuild with stable keywords; links do not count.
LiveDefs(d) == {f \in d : ~f.link /\ f.lines = LiveText}
StableDefs(d) == {f \in d : ~f.link /\ f.lines = StableText}

\* f's '<version>-r<rev>' is at most g's
VersionAtMost(f, g) ==
  \/ f.name.ver < g.name.ver
  \/ f.name.ver = g.name.ver /\ PkgSplitRev(f.name) <= PkgSplitRev(g.name)

MULTIPLE_STABLE == "Found multiple stable ebuilds"
MISSING_STABLE == "Missing stable ebuild"
InSeq(x, s) == \E i \in 1..Len(s) : s[i] = x

\* C9: with exactly one live-tracking definition and more than one stable
\* definition (their versions are distinct, as their names are),
\* _FindUprevCandidates returns the stable ebuild of the highest version, and
\* warns of multiple stable ebuilds exactly when the package is not
\* x11-drivers/xf86-video-msm.
C9_BestStableReturned ==
  (rdone /\ Cardinality(LiveDefs(rdir)) = 1 /\ Cardinality(StableDefs(rdir)) > 1) =>
    /\ rout.fatal = ""
    /\ \E g \in StableDefs(rdir) :
         /\ rout.ret = <<EBuild(rpkg, g)>>
         /\ \A f \in StableDefs(rdir) : VersionAtMost(f, g)
    /\ InSeq(MULTIPLE_STABLE, rout.warnings) <=> (rpkg # EXEMPT_PACKAGE)
    /\ Len(rout.warnings) <= 1

C9_Witness ==
  /\ rdone /\ Cardinality(LiveDefs(rdir)) = 1 /\ Cardinality(StableDefs(rdir)) > 1
  /\ rout.warnings = <<MULTIPLE_STABLE>>
  /\ rout.ret # NoEBuild /\ rout.ret[1].is_stable

\* C10: with exactly one live-tracking definition and no stable definition,
\* _FindUprevCandidates returns the live-tracking ebuild, warns exactly once
\* and does not die.
C10_BootstrapReturned ==
  (rdone /\ Cardinality(LiveDefs(rdir)) = 1 /\ StableDefs(rdir) = {}) =>
    /\ rout.fatal = ""
    /\ \E g \in LiveDefs(rdir) : rout.ret = <<EBuild(rpkg, g)>>
    /\ rout.warnings = <<MISSING_STABLE>>

C10_Witness ==
  /\ rdone /\ Cardinality(LiveDefs(rdir)) = 1 /\ StableDefs(rdir) = {}
  /\ Cardinality(rdir) > 1
  /\ rout.ret # NoEBuild /\ ~rout.ret[1].is_stable
  /\ Len(rout.warnings) = 1

\* ------------------------------------------------------------ SpecRev
\* Rounds of main's work on one package directory: _FindUprevCandidates,
\* GetCommitId, RevWorkOnEBuild and, when it returns True, CommitChange.
LiveTexts ==
  { <<EapiLine, [k |-> "inherit ", v |-> "cros-workon"], [k |-> "KEYWORDS=", v |-> "~x86"]>>,
    <<[k |-> "inherit ", v |-> "cros-workon"], [k |-> "KEYWORDS=", v |-> "mips"]>>,
    <<EapiLine, CommitLine("0ld"), [k |-> "inherit ", v |-> "cros-workon"], BlankLine,
      [k |-> "KEYWORDS=", v |-> "~x86"], OtherLine>>,
    <<EapiLine, [k |-> "inherit ", v |-> "cros-workon"], [k |-> "KEYWORDS=", v |-> "x86"]>> }

\* Stable ebuilds on disk at the start: what an earlier run made of a live
\* text, or that with a blank line put in by hand.
StableTexts ==
  LET made == {MarkAsStable(t, WORKON_COMMIT, id) : t \in LiveTexts, id \in CommitIds}
  IN made \cup {<<BlankLine>> \o MarkAsStable(LiveText, WORKON_COMMIT, "abc123")}

StableNames ==
  {[ver |-> v, suffix |-> <<r>>] : v \in {PLACEHOLDER_VERSION, 2}, r \in 1..MaxRev}

RevDirs ==
  LET lives == {[name |-> UnstableName, link |-> FALSE, lines |-> t] : t \in LiveTexts}
      stables == {[name |-> n, link |-> FALSE, lines |-> t] : n \in StableNames, t \in StableTexts}
      strays == {[name |-> [ver |-> 2, suffix |-> <<1>>], link |-> FALSE, lines |-> LiveText]}
  IN {{l} : l \in lives} \cup {{l, st} : l \in lives, st \in stables} \cup {{st} : st \in strays}

InitRev ==
  /\ dir \in RevDirs
  /\ index = {}
  /\ ncalls = 0
  /\ prev = <<>>
  /\ last = <<>>
  /\ IdleResolve /\ IdleGit /\ IdlePush /\ IdleMain /\ IdleMark

LiveLines(d) == IF Exists(d, UnstableName) THEN FileAt(d, UnstableName).lines ELSE <<>>

\* One round: lines 159 and 554-560 for the one package of the directory.
\* commit_id is what GetCommitId returns; fail the step that raises, "commit"
\* being the git commit of CommitChange.
Round ==
  /\ ncalls < MaxCalls
  /\ \E files \in Listings(dir), commit_id \in CommitIds, fail \in RevFailures \cup {"commit"} :
       \E out \in {FindUprevCandidates(RevPackage, files)} :
         /\ out.fatal = "" /\ out.ret # NoEBuild
         /\ \E r \in {RevWorkOnEBuild(dir, out.ret[1], commit_id, fail)} :
              /\ dir' = r.dir
              /\ index' = IF r.ret = "True" /\ fail # "commit" THEN {} ELSE index \cup r.staged
              /\ last' = <<[cand |-> out.ret[1], id |-> commit_id, live |-> LiveLines(dir),
                            ret |-> r.ret, new |-> r.new, staged |-> r.staged,
                            new_on_disk |-> Exists(r.dir, r.new),
                            raised |-> IF r.ret = "True" /\ fail = "commit"
                                       THEN "commit" ELSE r.raised]>>
  /\ prev' = last
  /\ ncalls' = ncalls + 1
  /\ UNCHANGED <<resolveVars, gitVars, pushVars, mainVars, markVars>>

\* The live ebuild is edited between two rounds
EditLive ==
  /\ 0 < ncalls /\ ncalls < MaxCalls
  /\ Exists(dir, UnstableName)
  /\ \E t \in LiveTexts :
       /\ t # LiveLines(dir)
       /\ dir' = WriteFile(dir, UnstableName, t)
  /\ UNCHANGED <<index, ncalls, prev, last, resolveVars, gitVars, pushVars, mainVars, markVars>>

NextRev == Round \/ EditLive

SpecRev == InitRev /\ [][NextRev]_vars

\* ---- what a round staged
AddOf(c) == [op |-> "add", package |-> c.cand.package, name |-> c.new]
RmOf(c) == [op |-> "rm", package |-> c.cand.package, name |-> c.cand.ebuild_path]

\* The last round repeats the one before it: that one revved a stable ebuild
\* and returned True, and the last one works on the ebuild it created, with
\* the same commit id and the same live ebuild.
Repeated ==
  /\ prev # <<>> /\ last # <<>>
  /\ prev[1].cand.is_stable /\ prev[1].ret = "True" /\ prev[1].raised = ""
  /\ last[1].cand.ebuild_path = prev[1].new
  /\ last[1].id = prev[1].id
  /\ last[1].live = prev[1].live

\* C7: RevWorkOnEBuild on the ebuild a revving has just created, with the
\* same commit id and an unchanged live ebuild, never returns True and stages
\* nothing; when no file operation of it raises it returns False and leaves
\* no new ebuild on disk.
C7_RevIdempotent ==
  Repeated =>
    /\ last[1].ret \in {"False", "raise"}
    /\ last[1].staged = {}
    /\ last[1].raised = "" =>
         /\ last[1].ret = "False"
         /\ ~last[1].new_on_disk
         /\ ~Exists(dir, last[1].new)

C7_Witness ==
  /\ Repeated
  /\ last[1].ret = "False"
  /\ last[1].cand.current_revision = prev[1].cand.current_revision + 1

\* The candidate of the last round is the live ebuild itself (no stable one)
Bootstrap(c) == ~c.cand.is_stable /\ c.cand.ebuild_path = UnstableName

\* A stable candidate at revision r whose revving returns True: the ebuild of
\* the same version at revision r+1 is on disk and staged, and the removal of
\* the revision-r ebuild is staged.
StableRevved(c) ==
  (c.cand.is_stable /\ c.ret = "True") =>
    /\ c.new = [ver |-> c.cand.ebuild_path.ver, suffix |-> <<PkgSplitRev(c.cand.ebuild_path) + 1>>]
    /\ c.new_on_disk
    /\ c.staged = {AddOf(c), RmOf(c)}

BootstrapStaged(c) ==
  /\ c.new = [ver |-> PLACEHOLDER_VERSION, suffix |-> <<1>>]
  /\ c.new_on_disk
  /\ c.staged = {AddOf(c)}

\* C8 as amended: a stable candidate at revision r whose revving returns True
\* gets revision r+1 created and staged and revision r staged for removal; a
\* bootstrap candidate whose revving returns True gets 0.0.1-r1 created and
\* staged, with no removal.
C8_RevCreatesNext ==
  last # <<>> =>
    /\ StableRevved(last[1])
    /\ (Bootstrap(last[1]) /\ last[1].ret = "True") => BootstrapStaged(last[1])

C8_Witness ==
  /\ prev # <<>> /\ last # <<>>
  /\ Bootstrap(prev[1]) /\ prev[1].ret = "True" /\ prev[1].raised = ""
  /\ last[1].cand.is_stable /\ last[1].ret = "True" /\ last[1].raised = ""
  /\ last[1].cand.ebuild_path = prev[1].new
  /\ last[1].new = [ver |-> PLACEHOLDER_VERSION, suffix |-> <<2>>]

\* C8 as stated: every bootstrap candidate gets 0.0.1-r1 created and staged
\* (whenever no step of the revving fails).
C8_Original ==
  last # <<>> =>
    /\ StableRevved(last[1])
    /\ (Bootstrap(last[1]) /\ last[1].ret \in {"True", "False"}) =>
         (last[1].ret = "True" /\ BootstrapStaged(last[1]))

\* ------------------------------------------------------------ SpecBranch
\* The GitBranch methods on one clone, with local commits and fetches between.
InitBranch ==
  /\ cwd = HomeOverlay
  /\ \E r \in RepoStates :
       /\ ValidRepo(r)
       /\ repos = [o \in Overlays |-> IF o = cwd THEN r ELSE CleanRepo]
  /\ gb = <<>>
  /\ IdlePush /\ IdleRev /\ IdleResolve /\ IdleMain /\ IdleMark

\* GitBranch(name, tracking_branch).CreateBranch()
BranchCreate ==
  \E name \in {STABLE_BRANCH_NAME, MERGE_BRANCH_NAME}, fail \in GitFailures :
    \E res \in {GitBranchCreate(repos[cwd], name, TRACKING_BRANCH, fail)} :
      /\ repos' = [repos EXCEPT ![cwd] = res.repo]
      /\ gb' = GitCall("CreateBranch", name, repos[cwd], res)
      /\ UNCHANGED <<cwd, pushVars, revVars, resolveVars, mainVars, markVars>>

\* GitBranch(name, tracking_branch).Delete()
BranchDelete ==
  \E name \in {STABLE_BRANCH_NAME, MERGE_BRANCH_NAME}, fail \in GitFailures \ {"create"} :
    \E res \in {GitBranchDelete(repos[cwd], name, TRACKING_BRANCH, fail)} :
      /\ repos' = [repos EXCEPT ![cwd] = res.repo]
      /\ gb' = GitCall("Delete", name, repos[cwd], res)
      /\ UNCHANGED <<cwd, pushVars, revVars, resolveVars, mainVars, markVars>>

BranchCommit ==
  /\ CanCommit(repos[cwd])
  /\ Len(repos[cwd].br[repos[cwd].cur][1].commits) < MaxCommits
  /\ repos' = [repos EXCEPT ![cwd] = GitCommit(@)]
  /\ UNCHANGED <<cwd, gb, pushVars, revVars, resolveVars, mainVars, markVars>>

\* A file is staged (git add)
BranchStage ==
  /\ repos[cwd].index = {}
  /\ repos' = [repos EXCEPT ![cwd].index = {Token(0)}]
  /\ UNCHANGED <<cwd, gb, pushVars, revVars, resolveVars, mainVars, markVars>>

BranchFetch ==
  /\ repos[cwd].tip < MaxTip
  /\ repos' = [repos EXCEPT ![cwd] = Fetched(@)]
  /\ UNCHANGED <<cwd, gb, pushVars, revVars, resolveVars, mainVars, markVars>>

\* git push of the local branch checked out
BranchPush ==
  /\ remote = <<>>
  /\ repos[cwd].cur \in DOMAIN repos[cwd].br /\ repos[cwd].br[repos[cwd].cur] # Absent
  /\ repos[cwd].br[repos[cwd].cur][1].commits # <<>>
  /\ remote' = <<repos[cwd].br[repos[cwd].cur][1].commits[1]>>
  /\ UNCHANGED <<dryrun, pstate, entry, tries, warned, ran, lastexc, gitVars, revVars,
                 resolveVars, mainVars, markVars>>

NextBranch ==
  BranchCreate \/ BranchDelete \/ BranchCommit \/ BranchStage \/ BranchFetch \/ BranchPush

SpecBranch == InitBranch /\ [][NextBranch]_vars

\* C5: a CreateBranch that returns has run, when the branch was there, git
\* checkout of the tracking branch, git branch -D and git checkout -b in this
\* order, and git checkout -b alone when it was not; either way the branch
\* then exists, is at the tip of the tracking branch with no commit of its
\* own, and is checked out.
C5_CreateBranchReplaces ==
  (gb # <<>> /\ gb[1].op = "CreateBranch" /\ ~gb[1].raised) =>
    /\ gb[1].trace =
         IF BranchExists(gb[1].before, gb[1].name)
         THEN <<Cmd("checkout", TRACKING_BRANCH), Cmd("branch -D", gb[1].name),
                Cmd("checkout -b", gb[1].name)>>
         ELSE <<Cmd("checkout -b", gb[1].name)>>
    /\ gb[1].after.br[gb[1].name] = Branch(gb[1].before.tip, <<>>)
    /\ gb[1].after.cur = gb[1].name

C5_Witness ==
  /\ gb # <<>> /\ gb[1].op = "CreateBranch" /\ ~gb[1].raised
  /\ gb[1].before.cur = gb[1].name
  /\ gb[1].before.br[gb[1].name][1].commits # <<>>
  /\ gb[1].before.tip > gb[1].before.br[gb[1].name][1].base
  /\ Len(gb[1].trace) = 3

\* ------------------------------------------------------------ SpecPush
\* PushChange(_STABLE_BRANCH_NAME, tracking_branch) on one clone
InitPush ==
  /\ cwd = HomeOverlay
  /\ \E r \in RepoStates :
       /\ ValidRepo(r)
       /\ repos = [o \in Overlays |-> IF o = cwd THEN r ELSE CleanRepo]
       /\ entry = r
  /\ gb = <<>>
  /\ dryrun \in BOOLEAN
  /\ pstate = "idle" /\ tries = <<>> /\ warned = <<>> /\ ran = {} /\ remote = <<>>
  /\ lastexc = ""
  /\ IdleRev /\ IdleResolve /\ IdleMain /\ IdleMark

\* Lines 241-250: the check of the branch and the git log of the description
PushStart ==
  /\ pstate = "idle"
  /\ entry' = repos[cwd]
  /\ \/ /\ ~CheckOnStabilizingBranch(repos[cwd], STABLE_BRANCH_NAME)
        /\ pstate' = "returned"
        /\ ran' = {"branch"}
     \/ /\ CheckOnStabilizingBranch(repos[cwd], STABLE_BRANCH_NAME)
        /\ \E failed \in BOOLEAN : pstate' = IF failed THEN "raised" ELSE "looping"
        /\ ran' = {"branch", "log"}
  /\ UNCHANGED <<dryrun, tries, warned, remote, lastexc, gitVars, revVars, resolveVars,
                 mainVars, markVars>>

\* One pass of the loop of lines 251-272
PushTry ==
  /\ pstate = "looping"
  /\ Len(tries) <= NUM_RETRIES
  /\ \E fail \in PushFailures, moved \in BOOLEAN :
       /\ moved => repos[cwd].tip < MaxTip
       /\ \E a \in {PushAttempt(repos[cwd], STABLE_BRANCH_NAME, TRACKING_BRANCH,
                                dryrun, fail, moved)} :
            /\ repos' = [repos EXCEPT ![cwd] = a.repo]
            /\ gb' = IF a.gb = <<>> THEN gb ELSE a.gb
            /\ ran' = ran \cup a.ran
            /\ remote' = remote \o a.pushed
            /\ tries' = Append(tries, IF a.ok THEN "ok" ELSE "failed")
            /\ lastexc' = AttemptException(a)
            /\ IF a.ok \/ PushCatches(AttemptException(a))
               THEN /\ warned' = WarnedAfter(warned, a.ok, Len(tries))
                    /\ pstate' = AfterAttempt(a.ok, Len(tries))
               ELSE /\ warned' = warned
                    /\ pstate' = "raised"
  /\ UNCHANGED <<cwd, dryrun, entry, revVars, resolveVars, mainVars, markVars>>

NextPush == PushStart \/ PushTry

SpecPush == InitPush /\ [][NextPush]_vars

\* ---- the attempts of the PushChange under way
Failed == {i \in 1..Len(tries) : tries[i] = "failed"}
Succeeded == {i \in 1..Len(tries) : tries[i] = "ok"}
StartedOnStable == entry.cur = STABLE_BRANCH_NAME

\* C2: PushChange makes attempts only when called on the stabilizing branch,
\* at most 6 of them, one at a time, and none after an attempt that got
\* through git remote update, the creation of the merge branch, the squash
\* merge, the commit and the push.
C2_AttemptsBounded ==
  /\ Len(tries) <= 6
  /\ tries # <<>> => StartedOnStable
  /\ \A i \in Succeeded :
       /\ i = Len(tries)
       /\ pstate = "returned"
       /\ ~ENABLED PushTry
       /\ {"remote update", "checkout -b", "merge --squash", "commit"} \subseteq ran
       /\ ran \cap {"push", "push --dry-run"} # {}

C2_Witness ==
  /\ Len(tries) = 6 /\ tries[6] = "ok" /\ pstate = "returned"
  /\ remote # <<>>

\* C3: after each failed attempt but the 6th PushChange has warned with the
\* number of that attempt and goes on to the next attempt; after 6 failed
\* attempts the exception has left PushChange; PushChange returns from the
\* loop only after an attempt that succeeded.
C3_WarnThenRetryOrRaise ==
  /\ warned = [i \in 1..Cardinality(Failed \ {6}) |-> i]
  /\ (tries # <<>> /\ tries[Len(tries)] = "failed" /\ Len(tries) < 6) =>
       (pstate = "looping" /\ ENABLED PushTry)
  /\ (Len(tries) = 6 /\ tries[6] = "failed") => pstate = "raised"
  /\ (pstate = "returned" /\ tries # <<>>) => tries[Len(tries)] = "ok"

C3_Witness ==
  /\ Len(tries) = 6 /\ tries[6] = "failed" /\ pstate = "raised"
  /\ warned = <<1, 2, 3, 4, 5>>

\* C4: a PushChange called while another branch than the stabilizing branch
\* is checked out returns at once: it has run nothing but the git branch of
\* the check, and the clone, its branches and its checked out branch are as
\* they were.
C4_NotOnBranchNoOp ==
  (pstate # "idle" /\ ~StartedOnStable) =>
    /\ pstate = "returned"
    /\ repos[cwd] = entry
    /\ ran = {"branch"}
    /\ tries = <<>> /\ warned = <<>> /\ remote = <<>> /\ gb = <<>>

C4_Witness ==
  /\ pstate = "returned" /\ ~StartedOnStable
  /\ entry.br[STABLE_BRANCH_NAME] # Absent
  /\ entry.br[STABLE_BRANCH_NAME][1].commits # <<>>

\* ------------------------------------------------------------ SpecMain
\* main(argv) for the commands commit and clean over the overlays.
Commands == {"commit", "clean"}

MainLive == <<EapiLine, [k |-> "inherit ", v |-> "cros-workon"], [k |-> "KEYWORDS=", v |-> "~x86"]>>
NoDir == {}
BootDir == {[name |-> UnstableName, link |-> FALSE, lines |-> MainLive]}
RevDir ==
  BootDir \cup {[name |-> [ver |-> 2, suffix |-> <<1>>], link |-> FALSE,
                 lines |-> MarkAsStable(MainLive, WORKON_COMMIT, "abc123")]}

\* The package directories an overlay can hold at the start
TreeStates ==
  {[p \in Packages |-> IF p = RevPackage THEN d1 ELSE d2] :
     d1 \in {NoDir, BootDir, RevDir}, d2 \in {NoDir, BootDir}}

\* The clones a run can find: clean, left on a stabilizing branch by an
\* earlier commit run, or back on the tracking branch with that branch kept.
MainRepoStates ==
  {CleanRepo,
   [CleanRepo EXCEPT !.cur = STABLE_BRANCH_NAME,
                     !.br[STABLE_BRANCH_NAME] = Branch(0, SampleCommits(1))],
   [CleanRepo EXCEPT !.br[STABLE_BRANCH_NAME] = Branch(0, SampleCommits(1))]}

InitMain ==
  /\ command \in Commands
  /\ tree \in [Overlays -> TreeStates]
  /\ repos \in [Overlays -> MainRepoStates]
  /\ start = [repos |-> repos, tree |-> tree]
  /\ cwd = ""
  /\ gb = <<>>
  /\ ebuilds = [o \in Overlays |-> <<>>]
  /\ todo = <<>>
  /\ pc = "start"
  /\ idx = 0
  /\ revved = [o \in Overlays |-> <<>>]
  /\ cleaned = [o \in Overlays |-> <<>>]
  /\ visited = [o \in Overlays |-> "no"]
  /\ mainlog = <<>>
  /\ exitcause = ""
  /\ raisedat = ""
  /\ IdlePush /\ IdleRev /\ IdleResolve /\ IdleMark

\* What _FindUprevCandidates can make of the directory of package p
ResolveAny(p, d) == {FindUprevCandidates(p, files) : files \in Listings(d)}

\* The candidates _BuildEBuildDictionary can put in overlays[o], taking the
\* outcome outs[p] for package p and keeping the packages wanted (all of
\* them under --all), in any order of the walk.
OverlayEBuilds(outs, wanted) ==
  LET kept == {outs[p].ret[1] : p \in {q \in Packages : outs[q].ret # NoEBuild /\ q \in wanted}}
  IN Listings(kept)

\* Lines 512-528: the flags, the overlays and _BuildEBuildDictionary
MainStart ==
  /\ pc = "start"
  /\ \E order \in Listings(Overlays) : todo' = order
  /\ IF command = "commit"
     THEN \E wanted \in SUBSET Packages :
            \E outs \in [Overlays -> [Packages -> UNION {ResolveAny(p, d) : p \in Packages, d \in {NoDir, BootDir, RevDir}}]] :
              /\ \A o \in Overlays, p \in Packages : outs[o][p] \in ResolveAny(p, tree[o][p])
              /\ IF \E o \in Overlays, p \in Packages : outs[o][p].fatal # ""
                 THEN /\ pc' = "exit" /\ exitcause' = "die"
                      /\ UNCHANGED ebuilds
                 ELSE /\ pc' = "loop" /\ exitcause' = ""
                      /\ \E eb \in [Overlays -> UNION {OverlayEBuilds(outs[o], wanted) : o \in Overlays}] :
                           /\ \A o \in Overlays : eb[o] \in OverlayEBuilds(outs[o], wanted)
                           /\ ebuilds' = eb
     ELSE /\ pc' = "loop"
          /\ UNCHANGED <<ebuilds, exitcause>>
  /\ UNCHANGED <<raisedat, command, start, tree, idx, revved, cleaned, visited, mainlog,
                 gitVars, pushVars, revVars, resolveVars, markVars>>

\* The loop of line 530 has no overlay left
MainDone ==
  /\ pc = "loop" /\ todo = <<>>
  /\ pc' = "done"
  /\ UNCHANGED <<raisedat, command, start, tree, ebuilds, todo, idx, revved, cleaned, visited,
                 mainlog, exitcause, gitVars, pushVars, revVars, resolveVars, markVars>>

\* Clean(tracking_branch): git reset HEAD --hard, git checkout tracking_branch
CleanRepoOf(r) == [r EXCEPT !.index = {}, !.cur = TRACKING_BRANCH]

MainClean ==
  /\ pc = "loop" /\ todo # <<>> /\ command = "clean"
  /\ cwd' = Head(todo)
  /\ \E fail \in {"none", "reset", "checkout"} :
       IF fail = "none"
       THEN /\ repos' = [repos EXCEPT ![Head(todo)] = CleanRepoOf(@)]
            /\ visited' = [visited EXCEPT ![Head(todo)] = "finished"]
            /\ todo' = Tail(todo)
            /\ UNCHANGED <<pc, exitcause>>
       ELSE /\ repos' = [repos EXCEPT ![Head(todo)].index = IF fail = "reset" THEN @ ELSE {}]
            /\ pc' = "exit" /\ exitcause' = "git"
            /\ UNCHANGED <<visited, todo>>
  /\ UNCHANGED <<raisedat, command, start, tree, ebuilds, idx, revved, cleaned, mainlog, gb,
                 pushVars, revVars, resolveVars, markVars>>

\* Line 544: a commit run on an overlay without candidates does nothing there
MainSkip ==
  /\ pc = "loop" /\ todo # <<>> /\ command = "commit" /\ ebuilds[Head(todo)] = <<>>
  /\ cwd' = Head(todo)
  /\ visited' = [visited EXCEPT ![Head(todo)] = "skipped"]
  /\ todo' = Tail(todo)
  /\ UNCHANGED <<raisedat, command, start, tree, ebuilds, pc, idx, revved, cleaned, mainlog,
                 exitcause, repos, gb, pushVars, revVars, resolveVars, markVars>>

\* Lines 545-551: the stabilizing branch is created
MainOpen ==
  /\ pc = "loop" /\ todo # <<>> /\ command = "commit" /\ ebuilds[Head(todo)] # <<>>
  /\ cwd' = Head(todo)
  /\ \E fail \in GitFailures :
       \E res \in {GitBranchCreate(repos[Head(todo)], STABLE_BRANCH_NAME, TRACKING_BRANCH, fail)} :
         /\ repos' = [repos EXCEPT ![Head(todo)] = res.repo]
         /\ gb' = GitCall("CreateBranch", STABLE_BRANCH_NAME, repos[Head(todo)], res)
         /\ visited' = [visited EXCEPT ![Head(todo)] = "open"]
         /\ IF res.raised
            THEN pc' = "exit" /\ exitcause' = "git" /\ UNCHANGED idx
            ELSE IF ~BranchExists(res.repo, STABLE_BRANCH_NAME)
            THEN pc' = "exit" /\ exitcause' = "die" /\ UNCHANGED idx
            ELSE pc' = "ebuild" /\ idx' = 1 /\ UNCHANGED exitcause
  /\ UNCHANGED <<raisedat, command, start, tree, ebuilds, todo, revved, cleaned, mainlog,
                 pushVars, revVars, resolveVars, markVars>>

PromoteFailures == RevFailures \cup {"getid_die", "getid_raise", "commit"}

\* The exceptions the except clause of line 562 catches: OSError and IOError,
\* which the copy and the unlink raise; a failing git command raises
\* subprocess.CalledProcessError and Die raises SystemExit.
Caught(raised) == raised \in {"copy", "unlink"}

\* Where main stands once an exception has left the try of line 553: the
\* clause re-raises and nothing above it catches.
AfterPromoteErrorContinue(left) == [pc |-> "loop", todo |-> Tail(left)]
AfterPromoteErrorFinish(left) == [pc |-> "finish", todo |-> left]
AfterPromoteError(left) == [pc |-> "exit", todo |-> left]

\* Lines 552-566 for ebuilds[cwd][idx]
MainEbuild ==
  /\ pc = "ebuild"
  /\ \E commit_id \in CommitIds, fail \in PromoteFailures :
       LET e == ebuilds[cwd][idx]
           more == idx < Len(ebuilds[cwd])
       IN \E r \in {RevWorkOnEBuild(tree[cwd][e.package], e, commit_id, fail)} :
            IF fail \in {"getid_die", "getid_raise"}
            THEN /\ pc' = AfterPromoteError(todo).pc /\ todo' = AfterPromoteError(todo).todo
                 /\ exitcause' = "promote"
                 /\ raisedat' = fail
                 /\ UNCHANGED <<tree, repos, revved, mainlog, idx>>
            ELSE /\ tree' = [tree EXCEPT ![cwd][e.package] = r.dir]
                 /\ IF r.ret \in {"die", "raise"} \/ (r.ret = "True" /\ fail = "commit")
                    THEN /\ pc' = AfterPromoteError(todo).pc /\ todo' = AfterPromoteError(todo).todo
                         /\ exitcause' = "promote"
                         /\ raisedat' = IF r.ret = "True" THEN "commit"
                                        ELSE IF r.ret = "die" THEN "die" ELSE r.raised
                         /\ repos' = [repos EXCEPT ![cwd].index = @ \cup r.staged]
                         /\ mainlog' = IF Caught(r.raised) THEN Append(mainlog, e.package)
                                       ELSE mainlog
                         /\ UNCHANGED <<revved, idx>>
                    ELSE /\ pc' = IF more THEN "ebuild" ELSE "finish"
                         /\ idx' = idx + 1
                         /\ repos' = IF r.ret = "True"
                                     THEN [repos EXCEPT ![cwd] =
                                             GitCommit([@ EXCEPT !.index = @ \cup r.staged])]
                                     ELSE repos
                         /\ revved' = IF r.ret = "True"
                                      THEN [revved EXCEPT ![cwd] = Append(@, e.package)]
                                      ELSE revved
                         /\ UNCHANGED <<todo, mainlog, exitcause, raisedat>>
  /\ UNCHANGED <<command, start, ebuilds, cleaned, visited, cwd, gb,
                 pushVars, revVars, resolveVars, markVars>>

\* Lines 568-571 on clone r: _CleanStalePackages(board, revved_packages) when
\* something was revved, work_branch.Delete() when nothing was. fail names
\* the command that fails ("emerge": one of _CleanStalePackages).
FinishResult(r, calls, raised) == [repo |-> r, cleaned |-> calls, raised |-> raised]

FinishOverlayNoDelete(r, revved_packages, fail) ==
  IF fail = "emerge" THEN FinishResult(r, <<>>, TRUE)
  ELSE FinishResult(r, <<revved_packages>>, FALSE)
FinishOverlay(r, revved_packages, fail) ==
  IF revved_packages # <<>>
  THEN IF fail = "emerge" THEN FinishResult(r, <<>>, TRUE)
       ELSE FinishResult(r, <<revved_packages>>, FALSE)
  ELSE LET d == GitBranchDelete(r, STABLE_BRANCH_NAME, TRACKING_BRANCH,
                                IF fail \in GitFailures THEN fail ELSE "none")
       IN FinishResult(d.repo, <<>>, d.raised)

MainFinish ==
  /\ pc = "finish"
  /\ \E fail \in {"none", "emerge", "checkout", "delete"} :
       \E f \in {FinishOverlay(repos[cwd], revved[cwd], fail)} :
         /\ repos' = [repos EXCEPT ![cwd] = f.repo]
         /\ cleaned' = [cleaned EXCEPT ![cwd] = @ \o f.cleaned]
         /\ IF f.raised
            THEN /\ pc' = "exit"
                 /\ exitcause' = IF revved[cwd] # <<>> THEN "cleanup" ELSE "git"
                 /\ UNCHANGED <<todo, visited>>
            ELSE /\ pc' = "loop"
                 /\ todo' = Tail(todo)
                 /\ visited' = [visited EXCEPT ![cwd] = "finished"]
                 /\ UNCHANGED exitcause
  /\ UNCHANGED <<raisedat, command, start, tree, ebuilds, idx, revved, mainlog, cwd, gb,
                 pushVars, revVars, resolveVars, markVars>>

NextMain == MainStart \/ MainDone \/ MainClean \/ MainSkip \/ MainOpen \/ MainEbuild \/ MainFinish

SpecMain == InitMain /\ [][NextMain]_vars

\* The overlays the loop has not reached when the run stands in todo[1]
Later == {todo[i] : i \in 2..Len(todo)}
Untouched(o) ==
  /\ visited[o] = "no"
  /\ repos[o] = start.repos[o]
  /\ tree[o] = start.tree[o]
  /\ revved[o] = <<>> /\ cleaned[o] = <<>>

Promoted(o) == {p \in Packages : tree[o][p] # start.tree[o][p]}
OnTracking(o) ==
  /\ ~BranchExists(repos[o], STABLE_BRANCH_NAME)
  /\ repos[o].cur = TRACKING_BRANCH
  /\ cleaned[o] = <<>>
KeptAndCleaned(o) ==
  /\ BranchExists(repos[o], STABLE_BRANCH_NAME)
  /\ repos[o].cur = STABLE_BRANCH_NAME
  /\ Len(cleaned[o]) = 1
  /\ {cleaned[o][1][i] : i \in 1..Len(cleaned[o][1])} = Promoted(o)
  /\ Len(cleaned[o][1]) = Cardinality(Promoted(o))
Settled(o) == IF Promoted(o) = {} THEN OnTracking(o) ELSE KeptAndCleaned(o)

\* C6 (as amended): after a commit run finishes an overlay without error,
\* for every positive number of candidates in it: if no promotion returned
\* changed, the stabilizing branch is absent and the clone is on the
\* tracking branch; if at least one did, the branch is kept and the stale
\* package cleanup is invoked exactly once with exactly the promoted
\* packages. An overlay with zero candidates is left as it was found: no
\* branch is created or deleted and no cleanup is invoked.
C6_FinishedOverlay ==
  command = "commit" =>
    \A o \in Overlays :
      /\ visited[o] = "finished" => (ebuilds[o] # <<>> /\ Settled(o))
      /\ visited[o] = "skipped" =>
           (ebuilds[o] = <<>> /\ repos[o] = start.repos[o] /\ cleaned[o] = <<>>)

C6_Witness ==
  /\ command = "commit"
  /\ \E o1, o2 \in Overlays :
       /\ visited[o1] = "finished" /\ Promoted(o1) # {}
       /\ visited[o2] = "finished" /\ Promoted(o2) = {}
       /\ BranchExists(start.repos[o2], STABLE_BRANCH_NAME)

\* C6 as stated: the zero-candidate overlay included.
C6_Original ==
  command = "commit" =>
    \A o \in Overlays : visited[o] \in {"finished", "skipped"} => Settled(o)

\* ------------------------------------------------------------ C11
MISSING_9999 == "Missing 9999 ebuild"

\* C11 (as amended): for a directory without live-tracking definition
\* _FindUprevCandidates never returns a record: with at least one stable
\* definition it dies of the missing 9999 ebuild (after the warning of
\* multiple stable ebuilds when there are several and the package is not
\* x11-drivers/xf86-video-msm), and without any it returns None, with no
\* warning and no fatal condition.
C11_NoLiveNoCandidate ==
  (rdone /\ LiveDefs(rdir) = {}) =>
    /\ rout.ret = NoEBuild
    /\ IF StableDefs(rdir) = {}
       THEN rout.fatal = "" /\ rout.warnings = <<>>
       ELSE /\ rout.fatal = MISSING_9999
            /\ rout.warnings =
                 IF Cardinality(StableDefs(rdir)) > 1 /\ rpkg # EXEMPT_PACKAGE
                 THEN <<MULTIPLE_STABLE>> ELSE <<>>

C11_Witness ==
  /\ rdone /\ LiveDefs(rdir) = {} /\ Cardinality(StableDefs(rdir)) > 1
  /\ rout.fatal = MISSING_9999 /\ rout.warnings = <<MULTIPLE_STABLE>>

\* C11 as stated: without live-tracking definition the highest stable
\* definition is returned when there is one, silently, and None otherwise.
C11_Original ==
  (rdone /\ LiveDefs(rdir) = {}) =>
    /\ rout.fatal = "" /\ rout.warnings = <<>>
    /\ IF StableDefs(rdir) = {} THEN rout.ret = NoEBuild
       ELSE \E g \in StableDefs(rdir) :
              /\ rout.ret = <<EBuild(rpkg, g)>>
              /\ \A f \in StableDefs(rdir) : VersionAtMost(f, g)

\* ------------------------------------------------------------ C12
\* C12: with the dry-run flag set PushChange never runs git push itself, over
\* any number of attempts and failures: the only push it runs is
\* git push --dry-run, and nothing reaches the remote.
C12_DryRunNeverPushes ==
  dryrun =>
    /\ "push" \notin ran
    /\ remote = <<>>
    /\ Succeeded # {} => "push --dry-run" \in ran

C12_Witness ==
  /\ dryrun /\ pstate = "returned"
  /\ Failed # {} /\ Succeeded # {}
  /\ "push --dry-run" \in ran

\* ------------------------------------------------------------ C13
\* The clone as the CreateBranch of the last attempt that got that far left
\* it: the state in which that attempt's git merge --squash starts.
AtMerge == gb[1].after

\* C13: in every attempt of PushChange whose CreateBranch returned, the
\* squash merge starts with the merge branch checked out, freshly created
\* at the tip of the tracking branch without a commit of its own, and with
\* nothing in the index but what was staged when PushChange was called:
\* nothing an earlier attempt merged, staged or committed.
C13_AttemptsIsolated ==
  (pstate # "idle" /\ gb # <<>> /\ ~gb[1].raised) =>
    /\ AtMerge.cur = MERGE_BRANCH_NAME
    /\ AtMerge.br[MERGE_BRANCH_NAME] = Branch(AtMerge.tip, <<>>)
    /\ AtMerge.index \subseteq entry.index

\* ------------------------------------------------------------ C14
\* The command of place i of the trace of call g is a git branch -D that
\* succeeded: a later command ran, or the call returned.
Deleted(g, i) ==
  /\ g.trace[i].cmd = "branch -D"
  /\ i < Len(g.trace) \/ ~g.raised

\* C14: whenever a git branch -D of Delete has removed a branch, alone or
\* within CreateBranch, it is the branch of the GitBranch object and not the
\* tracking branch, the command before it was the checkout of the tracking
\* branch, and when nothing ran after it the clone is on the tracking branch
\* with the branch absent.
C14_DeleteOnTracking ==
  gb # <<>> =>
    \A i \in 1..Len(gb[1].trace) :
      Deleted(gb[1], i) =>
        /\ gb[1].trace[i].arg = gb[1].name /\ gb[1].name # TRACKING_BRANCH
        /\ i > 1 /\ gb[1].trace[i - 1] = Cmd("checkout", TRACKING_BRANCH)
        /\ i = Len(gb[1].trace) =>
             /\ gb[1].after.cur = TRACKING_BRANCH
             /\ gb[1].after.br[gb[1].name] = Absent

C14_Witness ==
  /\ gb # <<>> /\ gb[1].op = "Delete" /\ ~gb[1].raised
  /\ gb[1].before.cur \notin {gb[1].name, TRACKING_BRANCH, OTHER_BRANCH}
  /\ gb[1].before.br[gb[1].name] # Absent
  /\ remote # <<>>

\* ------------------------------------------------------------ C15
\* C15: whenever the promotion of a package has failed at a file operation
\* (the copy, the unlink) or at a git command that stages or commits (git
\* add, git rm, git commit), the 'Cannot rev' warning for that package has
\* been emitted and the run has ended with the exception.
C15_WarnedBeforeReraise ==
  raisedat \in {"copy", "unlink", "add", "rm", "commit"} =>
    /\ pc = "exit"
    /\ Len(mainlog) = 1

\* ------------------------------------------------------------ C16
\* The commit run has created the stabilizing branch of overlay o
Opened(o) ==
  \/ visited[o] = "finished"
  \/ cwd = o /\ (pc \in {"ebuild", "finish"} \/ exitcause \in {"promote", "cleanup"})

\* The commits of the stabilizing branch of overlay o ahead of the tracking branch
Ahead(o) ==
  IF BranchExists(repos[o], STABLE_BRANCH_NAME)
  THEN repos[o].br[STABLE_BRANCH_NAME][1].commits ELSE <<>>

\* The package at which the run has failed in overlay o, if it has
FailedAt(o) ==
  IF pc = "exit" /\ exitcause = "promote" /\ cwd = o THEN {ebuilds[o][idx].package} ELSE {}

\* C16: in a commit run on an overlay, at every moment between two packages
\* and at the end, the commits on the stabilizing branch ahead of the
\* tracking branch are one per package of revved_packages, in its order,
\* each holding that package's changes only; a package is in
\* revved_packages at most once and only if its directory was changed, and
\* every package whose directory was changed is in it, but the one at which
\* the run has failed. So there are as many commits as revved packages.
C16_OneCommitPerPackage ==
  command = "commit" =>
    \A o \in Overlays :
      Opened(o) =>
        /\ Len(Ahead(o)) = Len(revved[o])
        /\ \A i \in 1..Len(Ahead(o)) :
             /\ Ahead(o)[i] # {}
             /\ \A c \in Ahead(o)[i] : c.package = revved[o][i]
        /\ \A i, j \in 1..Len(revved[o]) : revved[o][i] = revved[o][j] => i = j
        /\ {revved[o][i] : i \in 1..Len(revved[o])} \subseteq Promoted(o)
        /\ Promoted(o) \ {revved[o][i] : i \in 1..Len(revved[o])} \subseteq FailedAt(o)

C16_Witness ==
  /\ command = "commit" /\ pc = "done"
  /\ \E o1, o2 \in Overlays :
       /\ Len(revved[o1]) = 2 /\ Len(Ahead(o1)) = 2
       /\ visited[o2] = "finished" /\ ebuilds[o2] # <<>> /\ revved[o2] = <<>>

\* ------------------------------------------------------------ SpecMark
\* MarkAsStable(unstable_ebuild_path, new_stable_ebuild_path,
\* 'CROS_WORKON_COMMIT', commit_value) on the text of one unstable ebuild
MarkLines ==
  {EapiLine, CommitLine("0ld"), [k |-> "KEYWORDS=", v |-> "~x86"],
   [k |-> "inherit ", v |-> "cros-workon"], OtherLine, BlankLine}

InitMark ==
  /\ mlines \in UNION {[1..n -> MarkLines] : n \in 0..MaxLines}
  /\ mvalue \in CommitIds
  /\ mdone = FALSE
  /\ mout = <<>>
  /\ IdleResolve /\ IdleRev /\ IdleGit /\ IdlePush /\ IdleMain

Mark ==
  /\ ~mdone
  /\ mout' = MarkAsStable(mlines, WORKON_COMMIT, mvalue)
  /\ mdone' = TRUE
  /\ UNCHANGED <<mlines, mvalue, resolveVars, revVars, gitVars, pushVars, mainVars>>

NextMark == Mark

SpecMark == InitMark /\ [][NextMark]_vars

\* ---- the lines of an ebuild, told by their key
IsCommitIdLine(line) == line.k = WORKON_COMMIT
IsEapiLine(line) == line.k = "EAPI"
IsPlainLine(line) == line.k \notin {WORKON_COMMIT, "EAPI", "KEYWORDS="}
Places(text, kind) == {i \in 1..Len(text) : text[i].k = kind}

\* The output holds one commit id line, it binds the new id and follows the
\* EAPI line; the other lines are passed through.
OneCommitLine ==
  /\ Cardinality(Places(mout, WORKON_COMMIT)) = 1
  /\ \A i \in Places(mout, WORKON_COMMIT) :
       /\ mout[i] = CommitLine(mvalue)
       /\ i > 1 /\ IsEapiLine(mout[i - 1])
  /\ SelectSeq(mout, IsPlainLine) = SelectSeq(mlines, IsPlainLine)
  /\ SelectSeq(mout, IsEapiLine) = SelectSeq(mlines, IsEapiLine)

LiveFiles(d) ==
  {f \in d : f.name = UnstableName /\ ~f.link /\ IsWorkon(f.lines) /\ ~IsStable(f.lines)}
StableFiles(d) ==
  {f \in d : f.name # UnstableName /\ ~f.link /\ IsWorkon(f.lines) /\ IsStable(f.lines)}
OneLiveAtMostOneStable(d) ==
  /\ Cardinality(LiveFiles(d)) = 1 /\ Cardinality(StableFiles(d)) <= 1
  /\ d = LiveFiles(d) \cup StableFiles(d)

\* The stable revision number of the package: 0 before the first stable ebuild
StableRevision(d) ==
  IF StableFiles(d) = {} THEN 0
  ELSE PkgSplitRev((CHOOSE f \in StableFiles(d) : TRUE).name)

\* The KEYWORDS of the live-tracking ebuild name amd64, x86 or arm
LiveNamesArch(d) ==
  \E f \in LiveFiles(d) :
    \E i \in 1..Len(f.lines) : f.lines[i].k = "KEYWORDS=" /\ HasArch(f.lines[i])

\* The step is a round that completes: no command of it fails
RoundDone == ncalls' = ncalls + 1 /\ last'[1].raised = "" /\ last'[1].ret # "die"

\* The round leaves one live-tracking definition and at most one stable
\* definition, with the stable revision number raised by exactly 1 when
\* RevWorkOnEBuild returns True and unchanged when it returns False.
RevisionStep ==
  /\ OneLiveAtMostOneStable(dir')
  /\ last'[1].ret \in {"True", "False"}
  /\ StableRevision(dir') =
       StableRevision(dir) + (IF last'[1].ret = "True" THEN 1 ELSE 0)

InitCommitPush ==
  /\ InitMain
  /\ command = "commit"
  /\ \A o \in Overlays \ {HomeOverlay} :
       /\ tree[o] = [p \in Packages |-> NoDir]
       /\ repos[o] = CleanRepo

\* The commit run has ended and main is started again with the command push
\* (lines 502-530; _BuildEBuildDictionary is not called)
StartPushRun ==
  /\ command = "commit" /\ pc = "done"
  /\ command' = "push"
  /\ pc' = "loop"
  /\ \E order \in Listings(Overlays) : todo' = order
  /\ UNCHANGED <<start, tree, ebuilds, idx, revved, cleaned, visited, mainlog, exitcause,
                 raisedat, gitVars, pushVars, revVars, resolveVars, markVars>>

\* Lines 538-543: chdir to the overlay and the call of PushChange
MainPushOpen ==
  /\ command = "push" /\ pc = "loop" /\ todo # <<>>
  /\ cwd' = Head(todo)
  /\ pc' = "push"
  /\ pstate' = "idle" /\ tries' = <<>> /\ warned' = <<>> /\ ran' = {} /\ lastexc' = ""
  /\ gb' = <<>>
  /\ UNCHANGED <<command, start, tree, ebuilds, todo, idx, revved, cleaned, visited, mainlog,
                 exitcause, raisedat, repos, dryrun, entry, remote, revVars, resolveVars,
                 markVars>>

MainPushStart == pc = "push" /\ PushStart
MainPushTry == pc = "push" /\ PushTry

\* PushChange returns, or its exception leaves main
MainPushClose ==
  /\ pc = "push" /\ pstate \in {"returned", "raised"}
  /\ IF pstate = "returned"
     THEN pc' = "loop" /\ todo' = Tail(todo)
     ELSE pc' = "pushexit" /\ UNCHANGED todo
  /\ visited' = IF pstate = "returned" /\ tries # <<>>
                THEN [visited EXCEPT ![cwd] = "pushed"] ELSE visited
  /\ UNCHANGED <<command, start, tree, ebuilds, idx, revved, cleaned, mainlog,
                 exitcause, raisedat, gitVars, pushVars, revVars, resolveVars, markVars>>

\* The push run has ended and main is started with the command push again
RepeatPushRun ==
  /\ command = "push" /\ pc = "done"
  /\ \E o \in Overlays : visited[o] = "pushed"
  /\ pc' = "loop"
  /\ \E order \in Listings(Overlays) : todo' = order
  /\ UNCHANGED <<command, start, tree, ebuilds, idx, revved, cleaned, visited, mainlog,
                 exitcause, raisedat, gitVars, pushVars, revVars, resolveVars, markVars>>

NextCommitPush ==
  \/ MainStart \/ MainDone \/ MainSkip \/ MainOpen \/ MainEbuild \/ MainFinish
  \/ StartPushRun \/ MainPushOpen \/ MainPushStart \/ MainPushTry \/ MainPushClose
  \/ RepeatPushRun

SpecCommitPush == InitCommitPush /\ [][NextCommitPush]_vars

\* ---- the PushChange of the push run in the overlay it stands in
Pushing == command = "push" /\ pc \in {"push", "pushexit"} /\ pstate # "idle"
\* ... and no push run before it has pushed from that overlay
FirstPush == Pushing /\ visited[cwd] # "pushed"
PushNoOp ==
  /\ pstate = "returned" /\ tries = <<>> /\ ran = {"branch"}
  /\ repos[cwd] = entry /\ remote = <<>>
PushEntersLoop ==
  /\ "log" \in ran
  /\ pstate = "looping" \/ tries # <<>> \/ pstate = "raised"
  /\ pstate = "returned" =>
       /\ Len(remote) = 1
       /\ {c.package : c \in remote[1]} = Promoted(cwd)

C20_PushedOnce ==
  /\ (Pushing /\ pstate = "returned" /\ tries # <<>>) =>
       repos[cwd].cur = MERGE_BRANCH_NAME
  /\ (Pushing /\ visited[cwd] = "pushed") =>
       /\ entry.cur = MERGE_BRANCH_NAME
       /\ pstate = "returned" /\ tries = <<>> /\ ran = {"branch"}
       /\ repos[cwd] = entry
       /\ Len(remote) = 1

C20_Witness ==
  /\ Pushing /\ visited[cwd] = "pushed" /\ pstate = "returned"
  /\ entry.br[STABLE_BRANCH_NAME] # Absent
  /\ entry.br[STABLE_BRANCH_NAME][1].commits # <<>>
  /\ remote # <<>>

\* ------------------------------------------------------------ C21
\* The packages of revved_packages in overlay o
RevvedSet(o) == {revved[o][i] : i \in 1..Len(revved[o])}

\* C21: when the promotion of a package fails in the middle of an overlay's
\* batch, nothing is rolled back: the stabilizing branch still exists and is
\* the current branch, the commits of the packages promoted earlier in the
\* batch are still on it, one per package and in order, their directories
\* stay changed, what the failed promotion staged stays staged, and neither
\* _CleanStalePackages nor the Delete of the stabilizing branch is run, in
\* that state or in any later one (the run takes no further step).
C21_NoRollback ==
  exitcause = "promote" =>
    /\ BranchExists(repos[cwd], STABLE_BRANCH_NAME)
    /\ repos[cwd].cur = STABLE_BRANCH_NAME
    /\ Len(repos[cwd].br[STABLE_BRANCH_NAME][1].commits) = Len(revved[cwd])
    /\ \A i \in 1..Len(revved[cwd]) :
         /\ repos[cwd].br[STABLE_BRANCH_NAME][1].commits[i] # {}
         /\ \A c \in repos[cwd].br[STABLE_BRANCH_NAME][1].commits[i] :
              c.package = revved[cwd][i]
    /\ \A p \in RevvedSet(cwd) : tree[cwd][p] # start.tree[cwd][p]
    /\ raisedat = "commit" => repos[cwd].index # {}
    /\ cleaned[cwd] = <<>>
    /\ visited[cwd] = "open"
    /\ ~ENABLED MainFinish

C21_Witness ==
  /\ exitcause = "promote" /\ pc = "exit"
  /\ idx = 2 /\ Len(revved[cwd]) = 1
  /\ Len(repos[cwd].br[STABLE_BRANCH_NAME][1].commits) = 1
  /\ raisedat = "unlink"

\* ------------------------------------------------------------ C22
\* C22: a pass of the loop of PushChange that ends at Die('Unable to create
\* merge branch.') is handled as any failed pass: after one of the passes 1
\* to 5 PushChange has warned with the number of that pass and goes on to
\* the next pass, and the exception leaves PushChange only after pass 6,
\* with the five warnings printed.
C22_DieIsRetried ==
  lastexc = "SystemExit" =>
    /\ tries # <<>> /\ Len(tries) <= NUM_RETRIES + 1
    /\ tries[Len(tries)] = "failed"
    /\ Len(tries) <= NUM_RETRIES =>
         /\ pstate = "looping"
         /\ ENABLED PushTry
         /\ warned # <<>> /\ warned[Len(warned)] = Len(tries)
    /\ Len(tries) = NUM_RETRIES + 1 =>
         /\ pstate = "raised"
         /\ Len(warned) = NUM_RETRIES
    /\ pstate \in {"looping", "raised"}

C22_Witness ==
  /\ lastexc = "SystemExit"
  /\ Len(tries) = 5 /\ pstate = "looping"
  /\ warned = <<1, 2, 3, 4, 5>>
  /\ BranchExists(repos[cwd], STABLE_BRANCH_NAME)
  /\ repos[cwd].br[STABLE_BRANCH_NAME][1].commits # <<>>

====
